---- MODULE Spec2Model ----
(***************************************************************************)
(* Model of the C UDP client of the facility booking system                *)
(* (src/client/client_main.c, wire_codec.c, protocol.h).                   *)
(*                                                                         *)
(* Representation of machine integers.  TLC's integers are 32-bit signed,  *)
(* so the wider C types are kept at their full width as 16-bit limbs, most *)
(* significant first:                                                      *)
(*   uint16_t  an integer in 0..65535                                      *)
(*   uint32_t  <<hi, lo>>            (value = hi * 2^16 + lo)              *)
(*   int64_t   <<w3, w2, w1, w0>>    (two's complement, w3 holds the sign) *)
(* A byte buffer is a sequence of integers in 0..255; C index i is element *)
(* i + 1 of the sequence.                                                  *)
(***************************************************************************)
EXTENDS Integers, Sequences, FiniteSets, Bags, TLC

(***************************************************************************)
(* Bounds of the model.                                                    *)
(***************************************************************************)
MaxRetries == 1
MaxDup == 1

(***************************************************************************)
(* protocol.h                                                              *)
(***************************************************************************)
PROTOCOL_VERSION == 1
OP_QUERY_AVAIL == 1
OP_BOOK == 2
OP_CHANGE_BOOKING == 3
OP_MONITOR == 4
OP_CUSTOM_IDEMPOTENT == 4097
OP_CUSTOM_NON_IDEMPOTENT == 4098
OP_ERROR_MASK == 32768
ERR_CONFLICT == 1
ERR_NOT_FOUND == 2
ERR_BAD_REQUEST == 3
ERR_INTERNAL == 4
FLAG_AT_MOST_ONCE == 1
FLAG_IS_CALLBACK == 2
HEADER_LEN == 16
MAX_DGRAM_SIZE == 65536

(***************************************************************************)
(* Helpers for the limb representation.                                    *)
(***************************************************************************)
U32(n) == <<n \div 65536, n % 65536>>
I64(n) == <<0, 0, n \div 65536, n % 65536>>

\* a + b modulo 2^64 on int64_t limbs (the C addition day_start + 86400000LL)
Add64(a, b) ==
    LET s0 == a[4] + b[4]
        s1 == a[3] + b[3] + (s0 \div 65536)
        s2 == a[2] + b[2] + (s1 \div 65536)
        s3 == a[1] + b[1] + (s2 \div 65536)
    IN  <<s3 % 65536, s2 % 65536, s1 % 65536, s0 % 65536>>

\* mutant: the carry out of the low 16 bits is dropped
Inc32_nocarry(x) == <<x[1], (x[2] + 1) % 65536>>

\* ++x on a uint32_t (wraps modulo 2^32)
Inc32(x) ==
    IF x[2] = 65535 THEN <<(x[1] + 1) % 65536, 0>> ELSE <<x[1], x[2] + 1>>

\* x & mask # 0 for a single-bit mask (a power of two) and x >= 0
BitSet(x, mask) == (x \div mask) % 2 = 1

(***************************************************************************)
(* wire_codec.c: writers return the bytes they store (the C return value   *)
(* is the length of that sequence).                                        *)
(***************************************************************************)
write_u16(val) == <<(val \div 256) % 256, val % 256>>

write_u32(val) == <<val[1] \div 256, val[1] % 256, val[2] \div 256, val[2] % 256>>

\* mutant: the low word is written first
write_i64_lowfirst(val) ==
    LET high == <<val[1], val[2]>>
        low  == <<val[3], val[4]>>
    IN  write_u32(low) \o write_u32(high)

write_i64(val) ==
    LET high == <<val[1], val[2]>>
        low  == <<val[3], val[4]>>
    IN  write_u32(high) \o write_u32(low)

\* mutant: requestId and flags change places on the wire
write_header_swapped(h) ==
    write_u16(h.version) \o write_u16(h.opCode) \o write_u32(h.flags)
      \o write_u32(h.requestId) \o write_u32(h.payloadLen)

write_header(h) ==
    write_u16(h.version) \o write_u16(h.opCode) \o write_u32(h.requestId)
      \o write_u32(h.flags) \o write_u32(h.payloadLen)

\* mutant: the length is not clamped before it is cast to uint16_t
write_string_noclamp(str) ==
    LET len == Len(str)
    IN  write_u16(len % 65536) \o SubSeq(str, 1, len)

\* str is the C string without its terminator: strlen(str) = Len(str)
write_string(str) ==
    LET len == IF Len(str) > 65535 THEN 65535 ELSE Len(str)
    IN  write_u16(len) \o SubSeq(str, 1, len)

(***************************************************************************)
(* A memory image read by the decoders: the bytes a receive stored,        *)
(* followed by whatever the buffer held before (never written by the       *)
(* program: an indeterminate value, here one fill byte).                   *)
(***************************************************************************)
Mem(bytes, stale) == [bytes |-> bytes, stale |-> stale]

ByteAt(mem, i) == IF i < Len(mem.bytes) THEN mem.bytes[i + 1] ELSE mem.stale

read_u16(mem, pos) == ByteAt(mem, pos) * 256 + ByteAt(mem, pos + 1)

read_u32(mem, pos) == <<read_u16(mem, pos), read_u16(mem, pos + 2)>>

\* mutant: the low word is taken first
read_i64_lowfirst(mem, pos) ==
    LET low  == read_u32(mem, pos)
        high == read_u32(mem, pos + 4)
    IN  <<high[1], high[2], low[1], low[2]>>

read_i64(mem, pos) ==
    LET high == read_u32(mem, pos)
        low  == read_u32(mem, pos + 4)
    IN  <<high[1], high[2], low[1], low[2]>>

read_header(mem) ==
    [version    |-> read_u16(mem, 0),
     opCode     |-> read_u16(mem, 2),
     requestId  |-> read_u32(mem, 4),
     flags      |-> read_u32(mem, 8),
     payloadLen |-> read_u32(mem, 12)]

\* the values the readers return: the number of bytes they consumed
read_u16_ret == 2
read_u32_ret == 4
read_i64_ret == read_u32_ret + read_u32_ret
read_header_ret == read_u16_ret + read_u16_ret + read_u32_ret + read_u32_ret + read_u32_ret

\* mutant: the length prefix is taken low byte first
read_string_le(mem, pos, max_len) ==
    LET len == ByteAt(mem, pos + 1) * 256 + ByteAt(mem, pos)
    IN  IF len >= max_len
          THEN [ret |-> -1, val |-> <<>>]
          ELSE [ret |-> read_u16_ret + len,
                val |-> [i \in 1 .. len + 1 |->
                           IF i <= len THEN ByteAt(mem, pos + read_u16_ret + i - 1) ELSE 0]]

\* mutant: a declared length equal to the capacity is accepted
read_string_gt(mem, pos, max_len) ==
    LET len == read_u16(mem, pos)
    IN  IF len > max_len
          THEN [ret |-> -1, val |-> <<>>]
          ELSE [ret |-> read_u16_ret + len,
                val |-> [i \in 1 .. len + 1 |->
                           IF i <= len THEN ByteAt(mem, pos + read_u16_ret + i - 1) ELSE 0]]

\* read_string: ret is the return value, val the bytes stored in out[0 ..]
\* (nothing when it returns -1; otherwise len bytes and the terminator out[len])
read_string(mem, pos, max_len) ==
    LET len == read_u16(mem, pos)
    IN  IF len >= max_len
          THEN [ret |-> -1, val |-> <<>>]
          ELSE [ret |-> read_u16_ret + len,
                val |-> [i \in 1 .. len + 1 |->
                           IF i <= len THEN ByteAt(mem, pos + read_u16_ret + i - 1) ELSE 0]]

(***************************************************************************)
(* State.                                                                  *)
(***************************************************************************)
VARIABLES
    pc,            \* control point of the client process
    cmd,           \* command dispatched by main ("none" before dispatch)
    args,          \* the parsed command-line options
    g_request_id,  \* client_main.c:44
    req_buf,       \* request datagram built by the command (req_buf[0..offset))
    attempt,       \* loop counter of udp_invoke
    sends,         \* sendto calls made by udp_invoke so far
    sendFails,     \* ... of which returned < 0
    timeouts,      \* select calls that returned 0 so far
    sentBytes,     \* the distinct byte strings handed to sendto so far
    diag,          \* the last diagnostic udp_invoke printed ("" when none)
    term,          \* how udp_invoke ended: "none", "reply", "exhausted", "transport"
    ret,           \* return value of udp_invoke (meaningful once term # "none")
    resp_buf,      \* bytes stored in resp_buf by recvfrom
    result,        \* what the command reported to its caller
    readEnd,       \* one past the highest resp_buf index the command read
    sock,          \* request/response socket: "none", "open" or "closed"
    callback_sock, \* callback socket of cmd_monitor: "none", "open", "bound", "closed", "EBADF"
    cbLast,        \* what the listener printed for the last datagram
    callback_buf,  \* bytes stored in callback_buf by the listener's last recvfrom
    cbReadEnd,     \* one past the highest callback_buf index read for that datagram
    netReq,        \* request datagrams in flight to the server (a bag)
    netResp,       \* datagrams queued for delivery to the request socket (a bag)
    dups,          \* duplications performed by the network so far
    srvHistory,    \* server: requestId -> cached reply, for at-most-once requests
    srvExec,       \* server: requestIds of the requests it executed, in order
    srvRepeats,    \* server: repeats it answered from its history without executing
    codec_pc,      \* codec exercise: "idle", "write", "read" or "done"
    codec_fn,      \* ... the pair of codec functions exercised
    codec_in,      \* ... the value handed to the writer
    codec_max,     \* ... the capacity max_len handed to read_string
    codec_buf,     \* ... the bytes the writer stored in buf[0..return value)
    codec_out,     \* ... what the reader returned
    id_pc,         \* request-id exercise: "idle", "init" or "ready"
    id_seed,       \* ... the value init_request_id stored
    ids            \* ... the values next_request_id returned, in call order

vars == <<pc, cmd, args, g_request_id, req_buf, attempt, sends, sendFails, timeouts, sentBytes, diag, term, ret,
          resp_buf, result, readEnd, sock, callback_sock, cbLast,
          callback_buf, cbReadEnd,
          netReq, netResp, dups, srvHistory, srvExec, srvRepeats,
          codec_pc, codec_fn, codec_in, codec_max, codec_buf, codec_out,
          id_pc, id_seed, ids>>

clientVars == <<pc, cmd, args, g_request_id, req_buf, attempt, sends, sendFails, timeouts, sentBytes, diag, term, ret,
                resp_buf, result, readEnd, sock, callback_sock, cbLast,
                callback_buf, cbReadEnd>>

invokeVars == <<attempt, sends, sendFails, timeouts, sentBytes, diag, term, ret, resp_buf>>

listenerVars == <<callback_sock, cbLast, callback_buf, cbReadEnd>>

netVars == <<netReq, netResp, dups, srvHistory, srvExec, srvRepeats>>

codecVars == <<codec_pc, codec_fn, codec_in, codec_max, codec_buf, codec_out>>

idVars == <<id_pc, id_seed, ids>>

(***************************************************************************)
(* Inputs.                                                                 *)
(***************************************************************************)
Commands == {"query", "book", "change", "monitor", "reset", "custom-incr"}

LabA == <<76, 97, 98, 65>>
alice == <<97, 108, 105, 99, 101>>

Facilities == {LabA}

\* rand() & 0x3FFFFFFF: the smallest and the largest seed
Seeds == {<<0, 0>>, <<16383, 65535>>}

\* indeterminate content of a buffer byte the program never wrote
StaleBytes == {0, 255}

\* defaults of main (client_main.c:470-485), as limbs
DefaultArgs ==
    [facility         |-> LabA,
     user             |-> alice,
     start_ms         |-> <<0, 402, 29955, 16128>>,
     end_ms           |-> <<0, 402, 30010, 11648>>,
     day_start        |-> <<0, 402, 29625, 43008>>,
     day_end          |-> <<0, 402, 30944, 1024>>,
     booking_id       |-> I64(1),
     offset_minutes   |-> U32(60),
     duration_seconds |-> U32(30),
     callback_port    |-> U32(10000),
     retries          |-> 3,
     at_most_once     |-> 0]

NoResult == [status |-> "none", value |-> <<>>]

(***************************************************************************)
(* client_main.c: request id.                                              *)
(***************************************************************************)
next_request_id(g) == Inc32(g)

(***************************************************************************)
(* client_main.c: the request each command builds before it calls          *)
(* udp_invoke.  The payload is written at offset HEADER_LEN first, then    *)
(* the header at offset 0; the datagram is req_buf[0..offset).             *)
(***************************************************************************)
\* mutant: the at-most-once option never reaches the flags field
RequestHeader_noflag(op, rid, at_most_once, payload_len) ==
    [version    |-> PROTOCOL_VERSION,
     opCode     |-> op,
     requestId  |-> rid,
     flags      |-> U32(0),
     payloadLen |-> U32(payload_len)]

\* mutant: every request carries the at-most-once flag
RequestHeader_alwaysflag(op, rid, at_most_once, payload_len) ==
    [version    |-> PROTOCOL_VERSION,
     opCode     |-> op,
     requestId  |-> rid,
     flags      |-> U32(FLAG_AT_MOST_ONCE),
     payloadLen |-> U32(payload_len)]

RequestHeader(op, rid, at_most_once, payload_len) ==
    [version    |-> PROTOCOL_VERSION,
     opCode     |-> op,
     requestId  |-> rid,
     flags      |-> IF at_most_once # 0 THEN U32(FLAG_AT_MOST_ONCE) ELSE U32(0),
     payloadLen |-> U32(payload_len)]

\* mutant: payloadLen is given the whole datagram length
Request_total(op, rid, at_most_once, payload) ==
    LET offset      == HEADER_LEN + Len(payload)
        payload_len == offset
    IN  write_header(RequestHeader(op, rid, at_most_once, payload_len)) \o payload

Request(op, rid, at_most_once, payload) ==
    LET offset      == HEADER_LEN + Len(payload)
        payload_len == offset - HEADER_LEN
    IN  write_header(RequestHeader(op, rid, at_most_once, payload_len)) \o payload

cmd_query_request(a, rid) ==
    LET day_start == <<0, 402, 29625, 43008>>
        day_end   == Add64(day_start, <<0, 0, 1318, 23552>>)
    IN  Request(OP_QUERY_AVAIL, rid, a.at_most_once,
                write_string(a.facility) \o write_i64(day_start) \o write_i64(day_end))

cmd_book_request(a, rid) ==
    Request(OP_BOOK, rid, a.at_most_once,
            write_string(a.facility) \o write_string(a.user)
              \o write_i64(a.start_ms) \o write_i64(a.end_ms))

cmd_custom_incr_request(a, rid) ==
    Request(OP_CUSTOM_NON_IDEMPOTENT, rid, a.at_most_once, write_string(a.facility))

cmd_change_request(a, rid) ==
    Request(OP_CHANGE_BOOKING, rid, a.at_most_once,
            write_i64(a.booking_id) \o write_u32(a.offset_minutes))

cmd_monitor_request(a, rid) ==
    Request(OP_MONITOR, rid, a.at_most_once,
            write_string(a.facility) \o write_u32(a.duration_seconds)
              \o write_u32(a.callback_port))

cmd_reset_request(a, rid) ==
    Request(OP_CUSTOM_IDEMPOTENT, rid, a.at_most_once,
            write_string(a.facility) \o write_i64(a.day_start) \o write_i64(a.day_end))

BuildRequest(c, a, rid) ==
    CASE c = "query"       -> cmd_query_request(a, rid)
      [] c = "book"        -> cmd_book_request(a, rid)
      [] c = "custom-incr" -> cmd_custom_incr_request(a, rid)
      [] c = "change"      -> cmd_change_request(a, rid)
      [] c = "monitor"     -> cmd_monitor_request(a, rid)
      [] c = "reset"       -> cmd_reset_request(a, rid)

(***************************************************************************)
(* Initial state: the process image before main runs.                      *)
(***************************************************************************)
ProcessImage ==
    /\ pc = "main"
    /\ cmd = "none"
    /\ args = DefaultArgs
    /\ g_request_id = <<0, 0>>
    /\ req_buf = <<>>
    /\ attempt = 0
    /\ sends = 0
    /\ sendFails = 0
    /\ timeouts = 0
    /\ sentBytes = {}
    /\ diag = ""
    /\ term = "none"
    /\ ret = 0
    /\ resp_buf = <<>>
    /\ result = NoResult
    /\ readEnd = 0
    /\ sock = "none"
    /\ callback_sock = "none"
    /\ cbLast = NoResult
    /\ callback_buf = <<>>
    /\ cbReadEnd = 0
    /\ netReq = EmptyBag
    /\ netResp = EmptyBag
    /\ dups = 0
    /\ srvHistory = <<>>
    /\ srvExec = <<>>
    /\ srvRepeats = 0

\* no codec function is exercised on its own while the client runs
CodecIdle ==
    /\ codec_pc = "idle"
    /\ codec_fn = "none"
    /\ codec_in = <<>>
    /\ codec_max = 0
    /\ codec_buf = <<>>
    /\ codec_out = <<>>

\* the request-id functions are not exercised on their own while the client runs
IdIdle ==
    /\ id_pc = "idle"
    /\ id_seed = <<0, 0>>
    /\ ids = <<>>

Init == ProcessImage /\ CodecIdle /\ IdIdle

(***************************************************************************)
(* main: parse the options, seed the request id, create the socket and     *)
(* dispatch; the dispatched command builds its request (allocating one     *)
(* request id) and enters udp_invoke.                                      *)
(***************************************************************************)
main ==
    /\ pc = "main"
    /\ \E c \in Commands, f \in Facilities, r \in -1 .. MaxRetries,
          amo \in {0, 1}, seed \in Seeds :
         LET a   == [DefaultArgs EXCEPT !.facility = f, !.retries = r,
                                        !.at_most_once = amo]
             rid == next_request_id(seed)
         IN  /\ cmd' = c
             /\ args' = a
             /\ g_request_id' = rid
             /\ req_buf' = BuildRequest(c, a, rid)
    /\ sock' = "open"
    /\ attempt' = 0
    /\ pc' = "send"
    /\ UNCHANGED <<sends, sendFails, timeouts, sentBytes, diag, term, ret, resp_buf,
                   result, readEnd>>
    /\ UNCHANGED listenerVars
    /\ UNCHANGED netVars
    /\ UNCHANGED codecVars
    /\ UNCHANGED idVars

\* an unknown command name: nothing is invoked
main_unknown ==
    /\ pc = "main"
    /\ \E seed \in Seeds : g_request_id' = seed
    /\ cmd' = "unknown"
    /\ sock' = "open"
    /\ result' = [status |-> "unknown command", value |-> <<>>]
    /\ pc' = "cleanup"
    /\ UNCHANGED <<args, req_buf, readEnd>>
    /\ UNCHANGED invokeVars
    /\ UNCHANGED listenerVars
    /\ UNCHANGED netVars
    /\ UNCHANGED codecVars
    /\ UNCHANGED idVars

\* close(fd) releases a descriptor that is in use; on one that is not (closed
\* already, or never created) it fails with EBADF
close(s) == IF s \in {"open", "bound"} THEN "closed" ELSE "EBADF"

\* main: close(sock) after the dispatched command returned
main_cleanup ==
    /\ pc = "cleanup"
    /\ sock' = close(sock)
    /\ pc' = "exit"
    /\ UNCHANGED <<cmd, args, g_request_id, req_buf, result, readEnd>>
    /\ UNCHANGED invokeVars
    /\ UNCHANGED listenerVars
    /\ UNCHANGED netVars
    /\ UNCHANGED codecVars
    /\ UNCHANGED idVars

(***************************************************************************)
(* udp_invoke.                                                             *)
(***************************************************************************)
\* mutant: a retry re-encodes the header with a freshly allocated request id
SendBytes_reencoded(request, req_len, att) ==
    LET h == read_header(Mem(request, 0))
    IN  IF att = 0
          THEN SubSeq(request, 1, req_len)
          ELSE write_header([h EXCEPT !.requestId = Inc32(@)])
                 \o SubSeq(request, HEADER_LEN + 1, req_len)

\* the bytes handed to sendto on an attempt: (request, req_len), unchanged
SendBytes(request, req_len, att) == SubSeq(request, 1, req_len)

\* mutant: the loop runs one pass short
LoopCond_lt(att, max_retries) == att < max_retries

\* mutant: the condition is tested after the body ("do { ... } while")
LoopCond_dowhile(att, max_retries) == att = 0 \/ att <= max_retries

\* the loop condition of "for (attempt = 0; attempt <= max_retries; attempt++)"
LoopCond(att, max_retries) == att <= max_retries

\* mutant: a failed sendto aborts the invocation
udp_invoke_send_fatal ==
    /\ pc = "send"
    /\ LoopCond(attempt, args.retries)
    /\ LET dgram == SendBytes(req_buf, Len(req_buf), attempt)
       IN  /\ sends' = sends + 1
           /\ sentBytes' = sentBytes \cup {dgram}
           /\ \/ /\ sendFails' = sendFails + 1
                 /\ diag' = "sendto failed"
                 /\ term' = "transport"
                 /\ ret' = -1
                 /\ pc' = "returned"
                 /\ UNCHANGED <<netReq, attempt>>
              \/ /\ netReq' = netReq (+) SetToBag({dgram})
                 /\ pc' = "select"
                 /\ UNCHANGED <<attempt, sendFails, diag, term, ret>>
    /\ UNCHANGED <<cmd, args, g_request_id, req_buf, timeouts, resp_buf,
                   result, readEnd, sock>>
    /\ UNCHANGED listenerVars
    /\ UNCHANGED <<netResp, dups, srvHistory, srvExec, srvRepeats>>
    /\ UNCHANGED codecVars
    /\ UNCHANGED idVars

\* one pass through the head of the loop body: sendto(...)
udp_invoke_send ==
    /\ pc = "send"
    /\ LoopCond(attempt, args.retries)
    /\ LET dgram == SendBytes(req_buf, Len(req_buf), attempt)
       IN  /\ sends' = sends + 1
           /\ sentBytes' = sentBytes \cup {dgram}
           /\ \/ \* sent < 0: perror, continue
                 /\ sendFails' = sendFails + 1
                 /\ diag' = "sendto failed"
                 /\ attempt' = attempt + 1
                 /\ pc' = "send"
                 /\ UNCHANGED netReq
              \/ \* the datagram left the host (the network may still lose it)
                 /\ netReq' = netReq (+) SetToBag({dgram})
                 /\ pc' = "select"
                 /\ UNCHANGED <<attempt, sendFails, diag>>
    /\ UNCHANGED <<cmd, args, g_request_id, req_buf, timeouts, term, ret, resp_buf,
                   result, readEnd, sock>>
    /\ UNCHANGED listenerVars
    /\ UNCHANGED <<netResp, dups, srvHistory, srvExec, srvRepeats>>
    /\ UNCHANGED codecVars
    /\ UNCHANGED idVars

\* mutant: exhaustion is reported with a value of its own
udp_invoke_exhausted_distinct ==
    /\ pc = "send"
    /\ ~LoopCond(attempt, args.retries)
    /\ diag' = "Failed after retries"
    /\ term' = "exhausted"
    /\ ret' = -2
    /\ pc' = "returned"
    /\ netResp' = EmptyBag
    /\ UNCHANGED <<cmd, args, g_request_id, req_buf, attempt, sends, sendFails, timeouts,
                   sentBytes, resp_buf, result, readEnd, sock>>
    /\ UNCHANGED listenerVars
    /\ UNCHANGED <<netReq, dups, srvHistory, srvExec, srvRepeats>>
    /\ UNCHANGED codecVars
    /\ UNCHANGED idVars

\* the loop condition fails: "Failed after %d retries", return -1
udp_invoke_exhausted ==
    /\ pc = "send"
    /\ ~LoopCond(attempt, args.retries)
    /\ diag' = "Failed after retries"
    /\ term' = "exhausted"
    /\ ret' = -1
    /\ pc' = "returned"
    /\ netResp' = EmptyBag
    /\ UNCHANGED <<cmd, args, g_request_id, req_buf, attempt, sends, sendFails, timeouts,
                   sentBytes, resp_buf, result, readEnd, sock>>
    /\ UNCHANGED listenerVars
    /\ UNCHANGED <<netReq, dups, srvHistory, srvExec, srvRepeats>>
    /\ UNCHANGED codecVars
    /\ UNCHANGED idVars

\* mutant: a failed select is treated like a timeout
udp_invoke_select_error_retry ==
    /\ pc = "select"
    /\ diag' = "select failed"
    /\ attempt' = attempt + 1
    /\ pc' = "send"
    /\ UNCHANGED <<cmd, args, g_request_id, req_buf, sends, sendFails, timeouts, sentBytes,
                   term, ret, resp_buf, result, readEnd, sock>>
    /\ UNCHANGED listenerVars
    /\ UNCHANGED netVars
    /\ UNCHANGED codecVars
    /\ UNCHANGED idVars

\* sel < 0: perror, return -1
udp_invoke_select_error ==
    /\ pc = "select"
    /\ diag' = "select failed"
    /\ term' = "transport"
    /\ ret' = -1
    /\ pc' = "returned"
    /\ netResp' = EmptyBag
    /\ UNCHANGED <<cmd, args, g_request_id, req_buf, attempt, sends, sendFails, timeouts,
                   sentBytes, resp_buf, result, readEnd, sock>>
    /\ UNCHANGED listenerVars
    /\ UNCHANGED <<netReq, dups, srvHistory, srvExec, srvRepeats>>
    /\ UNCHANGED codecVars
    /\ UNCHANGED idVars

\* mutant: a timeout does not consume an attempt
udp_invoke_select_timeout_noinc ==
    /\ pc = "select"
    /\ diag' = "timeout, retrying"
    /\ timeouts' = timeouts + 1
    /\ pc' = "send"
    /\ UNCHANGED <<cmd, args, g_request_id, req_buf, attempt, sends, sendFails, sentBytes, term,
                   ret, resp_buf, result, readEnd, sock>>
    /\ UNCHANGED listenerVars
    /\ UNCHANGED netVars
    /\ UNCHANGED codecVars
    /\ UNCHANGED idVars

\* sel == 0: the timeout elapsed with nothing readable; continue
udp_invoke_select_timeout ==
    /\ pc = "select"
    /\ diag' = "timeout, retrying"
    /\ timeouts' = timeouts + 1
    /\ attempt' = attempt + 1
    /\ pc' = "send"
    /\ UNCHANGED <<cmd, args, g_request_id, req_buf, sends, sendFails, sentBytes, term,
                   ret, resp_buf, result, readEnd, sock>>
    /\ UNCHANGED listenerVars
    /\ UNCHANGED netVars
    /\ UNCHANGED codecVars
    /\ UNCHANGED idVars

\* sel > 0: a datagram is queued on the socket
udp_invoke_select_ready ==
    /\ pc = "select"
    /\ netResp # EmptyBag
    /\ pc' = "recvfrom"
    /\ UNCHANGED <<cmd, args, g_request_id, req_buf, result, readEnd, sock>>
    /\ UNCHANGED invokeVars
    /\ UNCHANGED listenerVars
    /\ UNCHANGED netVars
    /\ UNCHANGED codecVars
    /\ UNCHANGED idVars

\* recv_len < 0: perror, return -1
udp_invoke_recvfrom_error ==
    /\ pc = "recvfrom"
    /\ diag' = "recvfrom failed"
    /\ term' = "transport"
    /\ ret' = -1
    /\ pc' = "returned"
    /\ netResp' = EmptyBag
    /\ UNCHANGED <<cmd, args, g_request_id, req_buf, attempt, sends, sendFails, timeouts,
                   sentBytes, resp_buf, result, readEnd, sock>>
    /\ UNCHANGED listenerVars
    /\ UNCHANGED <<netReq, dups, srvHistory, srvExec, srvRepeats>>
    /\ UNCHANGED codecVars
    /\ UNCHANGED idVars

\* mutant: an error response is dropped and the request sent again
udp_invoke_recvfrom_retry_on_error ==
    /\ pc = "recvfrom"
    /\ \E d \in BagToSet(netResp) :
         /\ resp_buf' = d
         /\ IF Len(d) >= 4 /\ BitSet(read_u16(Mem(d, 0), 2), OP_ERROR_MASK)
              THEN /\ attempt' = attempt + 1
                   /\ pc' = "send"
                   /\ UNCHANGED <<ret, term>>
              ELSE /\ ret' = Len(d)
                   /\ term' = "reply"
                   /\ pc' = "returned"
                   /\ UNCHANGED attempt
    /\ netResp' = EmptyBag
    /\ UNCHANGED <<cmd, args, g_request_id, req_buf, sends, sendFails, timeouts,
                   sentBytes, diag, result, readEnd, sock>>
    /\ UNCHANGED listenerVars
    /\ UNCHANGED <<netReq, dups, srvHistory, srvExec, srvRepeats>>
    /\ UNCHANGED codecVars
    /\ UNCHANGED idVars

\* recvfrom stores one queued datagram in response[0..recv_len); return recv_len.
\* (Once udp_invoke has returned nothing reads the socket again, so what is still
\* queued on it is no longer tracked.)
udp_invoke_recvfrom ==
    /\ pc = "recvfrom"
    /\ \E d \in BagToSet(netResp) :
         LET recv_len == IF Len(d) > MAX_DGRAM_SIZE THEN MAX_DGRAM_SIZE ELSE Len(d)
         IN  /\ resp_buf' = SubSeq(d, 1, recv_len)
             /\ ret' = recv_len
    /\ netResp' = EmptyBag
    /\ term' = "reply"
    /\ pc' = "returned"
    /\ UNCHANGED <<cmd, args, g_request_id, req_buf, attempt, sends, sendFails, timeouts,
                   sentBytes, diag, result, readEnd, sock>>
    /\ UNCHANGED listenerVars
    /\ UNCHANGED <<netReq, dups, srvHistory, srvExec, srvRepeats>>
    /\ UNCHANGED codecVars
    /\ UNCHANGED idVars

(***************************************************************************)
(* client_main.c: what each command does with the value udp_invoke         *)
(* returned.  The decoders read resp_buf at fixed offsets, whatever the    *)
(* received length was.                                                    *)
(***************************************************************************)
\* the intervals read by the loop "for (i = 0; i < count; i++)" starting at pos:
\* iteration i reads start at pos + 16*i and end at pos + 16*i + 8
read_intervals(mem, pos, count) ==
    [i \in 1 .. count |->
        <<read_i64(mem, pos + 16 * (i - 1)), read_i64(mem, pos + 16 * (i - 1) + 8)>>]

Failed == [status |-> "failed", value |-> <<>>]
ServerError == [status |-> "server error", value |-> <<>>]

\* mutant: the error bit of the response is not tested
Respond_nocheck(rlen, mem, value, valueEnd) ==
    IF rlen < 0
      THEN [result |-> [status |-> "failed", value |-> <<>>], readEnd |-> 0]
      ELSE [result |-> [status |-> "ok", value |-> value], readEnd |-> valueEnd]

\* if (resp_len < 0) { "... failed"; return; }  read_header;
\* if (opCode & OP_ERROR_MASK) { "Server error response"; return; }
\* otherwise decode(mem) = <<value, end of the bytes read>>
Respond(rlen, mem, value, valueEnd) ==
    IF rlen < 0
      THEN [result |-> Failed, readEnd |-> 0]
      ELSE IF BitSet(read_header(mem).opCode, OP_ERROR_MASK)
             THEN [result |-> ServerError, readEnd |-> HEADER_LEN]
             ELSE [result |-> [status |-> "ok", value |-> value], readEnd |-> valueEnd]

query_decode(rlen, mem) ==
    LET count == read_u16(mem, HEADER_LEN)
    IN  Respond(rlen, mem,
                <<count, read_intervals(mem, HEADER_LEN + 2, count)>>,
                HEADER_LEN + 2 + 16 * count)

book_decode(rlen, mem) ==
    Respond(rlen, mem, <<read_i64(mem, HEADER_LEN)>>, HEADER_LEN + 8)

custom_incr_decode(rlen, mem) ==
    Respond(rlen, mem, <<read_i64(mem, HEADER_LEN)>>, HEADER_LEN + 8)

change_decode(rlen, mem) ==
    Respond(rlen, mem, <<read_i64(mem, HEADER_LEN), read_i64(mem, HEADER_LEN + 8)>>,
            HEADER_LEN + 16)

reset_decode(rlen, mem) ==
    Respond(rlen, mem, <<read_u32(mem, HEADER_LEN)>>, HEADER_LEN + 4)

monitor_decode(rlen, mem) ==
    Respond(rlen, mem, <<read_u16(mem, HEADER_LEN)>>, HEADER_LEN + 2)

\* the decoder of the command main dispatched
Decode(c, rlen, mem) ==
    CASE c = "query"       -> query_decode(rlen, mem)
      [] c = "book"        -> book_decode(rlen, mem)
      [] c = "custom-incr" -> custom_incr_decode(rlen, mem)
      [] c = "change"      -> change_decode(rlen, mem)
      [] c = "reset"       -> reset_decode(rlen, mem)
      [] c = "monitor"     -> monitor_decode(rlen, mem)

\* a command other than monitor returns to main after reporting
Finish(c, out) ==
    /\ pc = "returned"
    /\ cmd = c
    /\ result' = out.result
    /\ readEnd' = out.readEnd
    /\ pc' = "cleanup"
    /\ UNCHANGED <<cmd, args, g_request_id, req_buf, sock>>
    /\ UNCHANGED invokeVars
    /\ UNCHANGED listenerVars
    /\ UNCHANGED netVars
    /\ UNCHANGED codecVars
    /\ UNCHANGED idVars

cmd_query == \E st \in StaleBytes : Finish("query", query_decode(ret, Mem(resp_buf, st)))

cmd_book == \E st \in StaleBytes : Finish("book", book_decode(ret, Mem(resp_buf, st)))

cmd_custom_incr ==
    \E st \in StaleBytes :
        Finish("custom-incr", custom_incr_decode(ret, Mem(resp_buf, st)))

cmd_change == \E st \in StaleBytes : Finish("change", change_decode(ret, Mem(resp_buf, st)))

cmd_reset == \E st \in StaleBytes : Finish("reset", reset_decode(ret, Mem(resp_buf, st)))

\* mutant: the listener is started after any response without the error bit
cmd_monitor_ok_untested ==
    /\ pc = "returned"
    /\ cmd = "monitor"
    /\ \E st \in StaleBytes :
         LET out == monitor_decode(ret, Mem(resp_buf, st))
         IN  /\ readEnd' = out.readEnd
             /\ IF out.result.status = "ok"
                  THEN /\ result' = [status |-> "registered", value |-> out.result.value]
                       /\ pc' = "cb_socket"
                  ELSE /\ result' = out.result
                       /\ pc' = "cleanup"
    /\ UNCHANGED <<cmd, args, g_request_id, req_buf, sock>>
    /\ UNCHANGED invokeVars
    /\ UNCHANGED listenerVars
    /\ UNCHANGED netVars
    /\ UNCHANGED codecVars
    /\ UNCHANGED idVars

\* cmd_monitor up to the test of ok: only ok == 1 goes on to the listener
cmd_monitor ==
    /\ pc = "returned"
    /\ cmd = "monitor"
    /\ \E st \in StaleBytes :
         LET out == monitor_decode(ret, Mem(resp_buf, st))
         IN  /\ readEnd' = out.readEnd
             /\ IF out.result.status = "ok" /\ out.result.value[1] = 1
                  THEN /\ result' = [status |-> "registered", value |-> <<1>>]
                       /\ pc' = "cb_socket"
                  ELSE /\ result' = IF out.result.status = "ok"
                                      THEN [status |-> "not registered",
                                            value |-> out.result.value]
                                      ELSE out.result
                       /\ pc' = "cleanup"
    /\ UNCHANGED <<cmd, args, g_request_id, req_buf, sock>>
    /\ UNCHANGED invokeVars
    /\ UNCHANGED listenerVars
    /\ UNCHANGED netVars
    /\ UNCHANGED codecVars
    /\ UNCHANGED idVars

(***************************************************************************)
(* cmd_monitor: the callback socket and the listener loop.                 *)
(***************************************************************************)
\* socket(): INVALID_SOCKET returns at once
cmd_monitor_socket ==
    /\ pc = "cb_socket"
    /\ \/ /\ callback_sock' = "open"
          /\ pc' = "cb_bind"
       \/ /\ pc' = "cleanup"
          /\ UNCHANGED callback_sock
    /\ UNCHANGED <<cmd, args, g_request_id, req_buf, result, readEnd, sock,
                   cbLast, callback_buf, cbReadEnd>>
    /\ UNCHANGED invokeVars
    /\ UNCHANGED netVars
    /\ UNCHANGED codecVars
    /\ UNCHANGED idVars

\* mutant: a failed bind returns without closing the callback socket
cmd_monitor_bind_leak ==
    /\ pc = "cb_bind"
    /\ \/ /\ callback_sock' = "bound"
          /\ pc' = "cb_loop"
       \/ /\ pc' = "cleanup"
          /\ UNCHANGED callback_sock
    /\ UNCHANGED <<cmd, args, g_request_id, req_buf, result, readEnd, sock,
                   cbLast, callback_buf, cbReadEnd>>
    /\ UNCHANGED invokeVars
    /\ UNCHANGED netVars
    /\ UNCHANGED codecVars
    /\ UNCHANGED idVars

\* bind(): on failure close(callback_sock) and return
cmd_monitor_bind ==
    /\ pc = "cb_bind"
    /\ \/ /\ callback_sock' = "bound"
          /\ pc' = "cb_loop"
       \/ /\ callback_sock' = close(callback_sock)
          /\ pc' = "cleanup"
    /\ UNCHANGED <<cmd, args, g_request_id, req_buf, result, readEnd, sock,
                   cbLast, callback_buf, cbReadEnd>>
    /\ UNCHANGED invokeVars
    /\ UNCHANGED netVars
    /\ UNCHANGED codecVars
    /\ UNCHANGED idVars

\* a server-side push and other datagrams that can reach the callback port
Notification(op, flags, payload) ==
    write_header([version |-> PROTOCOL_VERSION, opCode |-> op, requestId |-> U32(0),
                  flags |-> U32(flags), payloadLen |-> U32(Len(payload))]) \o payload

IntervalsPayload(ivs) ==
    LET RECURSIVE enc(_)
        enc(k) == IF k > Len(ivs) THEN <<>>
                  ELSE write_i64(ivs[k][1]) \o write_i64(ivs[k][2]) \o enc(k + 1)
    IN  write_u16(Len(ivs)) \o enc(1)

Interval1 == <<I64(1000), I64(2000)>>
Interval2 == <<I64(3000), I64(4000)>>

\* a complete message whose header carries a version other than PROTOCOL_VERSION
WrongVersion(d) ==
    write_header([read_header(Mem(d, 0)) EXCEPT !.version = PROTOCOL_VERSION + 1])
      \o SubSeq(d, HEADER_LEN + 1, Len(d))

\* a complete message whose header declares no payload although one follows
WrongPayloadLen(d) ==
    write_header([read_header(Mem(d, 0)) EXCEPT !.payloadLen = U32(0)])
      \o SubSeq(d, HEADER_LEN + 1, Len(d))

\* a complete reply that answers another request: its requestId is not the one
\* of the request being invoked
WrongRequestId(d) ==
    write_header([read_header(Mem(d, 0)) EXCEPT !.requestId = Inc32(@)])
      \o SubSeq(d, HEADER_LEN + 1, Len(d))

CallbackDatagrams ==
    { Notification(OP_QUERY_AVAIL, FLAG_IS_CALLBACK, IntervalsPayload(<<>>)),
      Notification(OP_QUERY_AVAIL, FLAG_IS_CALLBACK, IntervalsPayload(<<Interval1>>)),
      Notification(OP_QUERY_AVAIL, 0, IntervalsPayload(<<Interval1>>)),
      Notification(OP_BOOK, FLAG_IS_CALLBACK, write_i64(I64(7))),
      Notification(OP_QUERY_AVAIL + OP_ERROR_MASK, FLAG_IS_CALLBACK, write_u16(ERR_INTERNAL)),
      SubSeq(Notification(OP_QUERY_AVAIL, FLAG_IS_CALLBACK, IntervalsPayload(<<Interval1>>)),
             1, HEADER_LEN + 2),
      <<0, 1, 0>>,
      WrongVersion(Notification(OP_QUERY_AVAIL, FLAG_IS_CALLBACK,
                                IntervalsPayload(<<Interval1>>))),
      WrongPayloadLen(Notification(OP_QUERY_AVAIL, FLAG_IS_CALLBACK,
                                   IntervalsPayload(<<Interval1>>))) }

\* one datagram of the listener loop: read_header, print, and for
\* opCode == OP_QUERY_AVAIL the count and the intervals
callback_decode(mem) ==
    LET cb_hdr == read_header(mem)
        count  == read_u16(mem, HEADER_LEN)
    IN  IF cb_hdr.opCode = OP_QUERY_AVAIL
          THEN [result  |-> [status |-> "update",
                             value  |-> <<count, read_intervals(mem, HEADER_LEN + 2, count)>>],
                readEnd |-> HEADER_LEN + 2 + 16 * count]
          ELSE [result  |-> [status |-> "ignored", value |-> <<cb_hdr.opCode>>],
                readEnd |-> HEADER_LEN]

\* mutant: a message that is not an availability update with intervals ends the loop
cmd_monitor_recv_stop_on_bad ==
    /\ pc = "cb_loop"
    /\ \E d \in CallbackDatagrams, st \in StaleBytes :
         LET out == callback_decode(Mem(d, st))
         IN  /\ callback_buf' = d
             /\ cbLast' = out.result
             /\ cbReadEnd' = out.readEnd
             /\ IF out.result.status = "update" /\ out.result.value[1] > 0
                  THEN pc' = "cb_loop" /\ UNCHANGED callback_sock
                  ELSE pc' = "cleanup" /\ callback_sock' = close(callback_sock)
    /\ UNCHANGED <<cmd, args, g_request_id, req_buf, result, readEnd, sock>>
    /\ UNCHANGED invokeVars
    /\ UNCHANGED netVars
    /\ UNCHANGED codecVars
    /\ UNCHANGED idVars

\* recvfrom on the callback socket returned a datagram; the loop goes on
cmd_monitor_recv ==
    /\ pc = "cb_loop"
    /\ \E d \in CallbackDatagrams, st \in StaleBytes :
         LET out == callback_decode(Mem(d, st))
         IN  /\ callback_buf' = d
             /\ cbLast' = out.result
             /\ cbReadEnd' = out.readEnd
    /\ pc' = "cb_loop"
    /\ UNCHANGED <<cmd, args, g_request_id, req_buf, result, readEnd, sock, callback_sock>>
    /\ UNCHANGED invokeVars
    /\ UNCHANGED netVars
    /\ UNCHANGED codecVars
    /\ UNCHANGED idVars

\* recv_len < 0: break, close(callback_sock)
cmd_monitor_recv_error ==
    /\ pc = "cb_loop"
    /\ callback_sock' = close(callback_sock)
    /\ pc' = "cleanup"
    /\ UNCHANGED <<cmd, args, g_request_id, req_buf, result, readEnd, sock,
                   cbLast, callback_buf, cbReadEnd>>
    /\ UNCHANGED invokeVars
    /\ UNCHANGED netVars
    /\ UNCHANGED codecVars
    /\ UNCHANGED idVars

\* "press Ctrl+C to stop": the program installs no signal handler and keeps no
\* cancellation flag, so an interrupt while the loop waits in recvfrom ends the
\* process where it stands; no statement after the loop is executed
cmd_monitor_interrupted ==
    /\ pc = "cb_loop"
    /\ pc' = "killed"
    /\ UNCHANGED <<cmd, args, g_request_id, req_buf, result, readEnd, sock>>
    /\ UNCHANGED invokeVars
    /\ UNCHANGED listenerVars
    /\ UNCHANGED netVars
    /\ UNCHANGED codecVars
    /\ UNCHANGED idVars

(***************************************************************************)
(* The environment: the datagram network and the remote peer.  Neither is  *)
(* part of the client sources; they follow the specification (an           *)
(* unreliable transport that may lose, delay or duplicate datagrams, and a *)
(* server that deduplicates at-most-once requests by requestId).           *)
(***************************************************************************)
Reply(op, rid, payload) ==
    write_header([version |-> PROTOCOL_VERSION, opCode |-> op, requestId |-> rid,
                  flags |-> U32(0), payloadLen |-> U32(Len(payload))]) \o payload

\* success payloads of an operation; n is the number of executions so far
SuccessPayloads(op, n) ==
    CASE op = OP_QUERY_AVAIL           -> {IntervalsPayload(<<Interval1>>),
                                           IntervalsPayload(<<Interval1, Interval2>>)}
      [] op = OP_BOOK                  -> {write_i64(I64(7))}
      [] op = OP_CHANGE_BOOKING        -> {write_i64(I64(1000)) \o write_i64(I64(2000))}
      [] op = OP_MONITOR               -> {write_u16(1), write_u16(0)}
      [] op = OP_CUSTOM_IDEMPOTENT     -> {write_u32(U32(2))}
      [] op = OP_CUSTOM_NON_IDEMPOTENT -> {write_i64(I64(n))}
      [] OTHER                         -> {}

ErrorKinds == {ERR_CONFLICT, ERR_NOT_FOUND, ERR_BAD_REQUEST, ERR_INTERNAL}

\* what the server may answer to a request it executes
ServerReplies(op, rid, n) == {Reply(op, rid, p) : p \in SuccessPayloads(op, n)}

\* what the server may answer to a request it refuses (the operation is not applied)
ErrorReplies(op, rid) ==
    {Reply(op + OP_ERROR_MASK, rid, write_u16(k)) : k \in ErrorKinds}

\* A datagram reaches the request socket while the invocation runs.  udp_invoke
\* reads at most one datagram, so the socket queue is kept one datagram deep: a
\* datagram that arrives while one is queued is dropped, as the network may do
\* with any datagram.  After udp_invoke returned the queue is not tracked.
Deliver(d) ==
    IF term = "none" /\ netResp = EmptyBag THEN SetToBag({d}) ELSE netResp

\* the server executes one request datagram, or answers a repeat of an
\* at-most-once request from its history without executing it again
ServerReceive ==
    /\ \E d \in BagToSet(netReq) :
         LET h   == read_header(Mem(d, 0))
             rid == h.requestId
             amo == BitSet(h.flags[2], FLAG_AT_MOST_ONCE)
         IN  /\ netReq' = netReq (-) SetToBag({d})
             /\ IF amo /\ rid \in DOMAIN srvHistory
                  THEN /\ netResp' = Deliver(srvHistory[rid])
                       /\ srvRepeats' = srvRepeats + 1
                       /\ UNCHANGED <<srvHistory, srvExec>>
                  ELSE \E rep \in ServerReplies(h.opCode, rid, Len(srvExec) + 1) :
                         /\ srvExec' = Append(srvExec, rid)
                         /\ srvHistory' = IF amo THEN (rid :> rep) @@ srvHistory
                                                 ELSE srvHistory
                         /\ netResp' = Deliver(rep)
                         /\ UNCHANGED srvRepeats
    /\ UNCHANGED dups
    /\ UNCHANGED clientVars
    /\ UNCHANGED codecVars
    /\ UNCHANGED idVars

\* the server refuses one request datagram with an error response
ServerRejects ==
    /\ term = "none"
    /\ \E d \in BagToSet(netReq) :
         LET h == read_header(Mem(d, 0))
         IN  /\ netReq' = netReq (-) SetToBag({d})
             /\ \E rep \in ErrorReplies(h.opCode, h.requestId) : netResp' = Deliver(rep)
    /\ UNCHANGED <<dups, srvHistory, srvExec, srvRepeats>>
    /\ UNCHANGED clientVars
    /\ UNCHANGED codecVars
    /\ UNCHANGED idVars

NetLoseRequest ==
    /\ \E d \in BagToSet(netReq) : netReq' = netReq (-) SetToBag({d})
    /\ UNCHANGED <<netResp, dups, srvHistory, srvExec, srvRepeats>>
    /\ UNCHANGED clientVars
    /\ UNCHANGED codecVars
    /\ UNCHANGED idVars

NetDuplicateRequest ==
    /\ dups < MaxDup
    /\ \E d \in BagToSet(netReq) : netReq' = netReq (+) SetToBag({d})
    /\ dups' = dups + 1
    /\ UNCHANGED <<netResp, srvHistory, srvExec, srvRepeats>>
    /\ UNCHANGED clientVars
    /\ UNCHANGED codecVars
    /\ UNCHANGED idVars

NetLoseReply ==
    /\ term = "none"
    /\ \E d \in BagToSet(netResp) : netResp' = netResp (-) SetToBag({d})
    /\ UNCHANGED <<netReq, dups, srvHistory, srvExec, srvRepeats>>
    /\ UNCHANGED clientVars
    /\ UNCHANGED codecVars
    /\ UNCHANGED idVars

\* lengths at which a peer may cut a reply short
TruncLens == {0, HEADER_LEN + 2}

\* a datagram shorter than its declared shape arrives on the request socket
PeerSendsTruncated ==
    /\ term = "none"
    /\ pc = "select"
    /\ netResp = EmptyBag
    /\ \E rep \in ServerReplies(read_header(Mem(req_buf, 0)).opCode, g_request_id, 1),
          k \in TruncLens :
         /\ k < Len(rep)
         /\ netResp' = Deliver(SubSeq(rep, 1, k))
    /\ UNCHANGED <<netReq, dups, srvHistory, srvExec, srvRepeats>>
    /\ UNCHANGED clientVars
    /\ UNCHANGED codecVars
    /\ UNCHANGED idVars

\* a reply of full length whose header is not the one the protocol prescribes
\* arrives on the request socket
PeerSendsMalformed ==
    /\ term = "none"
    /\ pc = "select"
    /\ netResp = EmptyBag
    /\ \E rep \in ServerReplies(read_header(Mem(req_buf, 0)).opCode, g_request_id, 1) :
         \/ netResp' = Deliver(WrongVersion(rep))
         \/ netResp' = Deliver(WrongPayloadLen(rep))
         \/ netResp' = Deliver(WrongRequestId(rep))
    /\ UNCHANGED <<netReq, dups, srvHistory, srvExec, srvRepeats>>
    /\ UNCHANGED clientVars
    /\ UNCHANGED codecVars
    /\ UNCHANGED idVars

(***************************************************************************)
(* The system.                                                             *)
(***************************************************************************)
Next ==
    \/ main
    \/ main_unknown
    \/ main_cleanup
    \/ udp_invoke_send
    \/ udp_invoke_exhausted
    \/ udp_invoke_select_error
    \/ udp_invoke_select_timeout
    \/ udp_invoke_select_ready
    \/ udp_invoke_recvfrom_error
    \/ udp_invoke_recvfrom
    \/ cmd_query
    \/ cmd_book
    \/ cmd_custom_incr
    \/ cmd_change
    \/ cmd_reset
    \/ cmd_monitor
    \/ cmd_monitor_socket
    \/ cmd_monitor_bind
    \/ cmd_monitor_recv
    \/ cmd_monitor_recv_error
    \/ cmd_monitor_interrupted
    \/ ServerReceive
    \/ ServerRejects
    \/ NetLoseRequest
    \/ NetDuplicateRequest
    \/ NetLoseReply
    \/ PeerSendsTruncated
    \/ PeerSendsMalformed

Spec == Init /\ [][Next]_vars

\* The system calls of udp_invoke return.  The loop head and sendto: sendto on
\* a datagram socket does not wait for the peer.
udp_invoke_sendto_returns == udp_invoke_send \/ udp_invoke_exhausted

\* select is called with tv = {timeout_ms / 1000, (timeout_ms % 1000) * 1000}:
\* it returns with an error, with a readable socket, or when tv has elapsed
udp_invoke_select_returns ==
    udp_invoke_select_error \/ udp_invoke_select_timeout \/ udp_invoke_select_ready

\* recvfrom is called only after select reported the socket readable
udp_invoke_recvfrom_returns == udp_invoke_recvfrom \/ udp_invoke_recvfrom_error

\* one invocation, from the dispatch in main to the return of udp_invoke, with
\* the network and the peer around it
InvokeNext ==
    \/ main
    \/ udp_invoke_send
    \/ udp_invoke_exhausted
    \/ udp_invoke_select_error
    \/ udp_invoke_select_timeout
    \/ udp_invoke_select_ready
    \/ udp_invoke_recvfrom_error
    \/ udp_invoke_recvfrom
    \/ ServerReceive
    \/ ServerRejects
    \/ NetLoseRequest
    \/ NetDuplicateRequest
    \/ NetLoseReply
    \/ PeerSendsTruncated
    \/ PeerSendsMalformed

\* the invocation in which the calls made by udp_invoke return
InvokeSpec ==
    /\ Init
    /\ [][InvokeNext]_vars
    /\ WF_vars(udp_invoke_sendto_returns)
    /\ WF_vars(udp_invoke_select_returns)
    /\ WF_vars(udp_invoke_recvfrom_returns)

(***************************************************************************)
(* wire_codec.c on its own: a value is handed to a writer and the bytes it *)
(* stored are handed to the matching reader.                               *)
(***************************************************************************)
MaxShortLen == 2

Alphabet == {1, 65, 255}

U16Samples == {0, 1, 255, 256, 258, 32767, 32768, 65535}

U32Samples == {<<0, 0>>, <<0, 1>>, <<258, 772>>, <<32768, 0>>, <<65535, 65535>>}

I64Limbs == {0, 1, 32768, 65535}

I64Samples ==
    {<<a, b, c, d>> : a \in I64Limbs, b \in I64Limbs, c \in I64Limbs, d \in I64Limbs}
      \cup {<<258, 772, 1286, 1800>>, <<65279, 56506, 39096, 30292>>}

HeaderSamples ==
    [version : U16Samples, opCode : U16Samples, requestId : U32Samples,
     flags : U32Samples, payloadLen : U32Samples]

\* a string of n bytes, none of them the terminator
LongString(n) == [i \in 1 .. n |-> (i % 255) + 1]

StringSamples ==
    UNION {[1 .. n -> Alphabet] : n \in 0 .. MaxShortLen}
      \cup {LongString(n) : n \in {65535, 65536}}

\* command-line arguments of a command: short and empty strings, both flag
\* values, negative numbers, and facility names around the capacity of req_buf
RequestArgs ==
    {[DefaultArgs EXCEPT !.facility = f, !.at_most_once = amo] :
        f \in {<<>>, <<65>>, LabA}, amo \in {0, 1}}
      \cup {[DefaultArgs EXCEPT !.user = <<>>,
                                !.booking_id = <<65535, 65535, 65535, 65534>>,
                                !.offset_minutes = <<65535, 65476>>,
                                !.duration_seconds = <<65535, 65535>>]}
      \cup {[DefaultArgs EXCEPT !.facility = LongString(n)] : n \in {65502, 65503, 65535}}

RequestInputs == [cmd : Commands, args : RequestArgs, rid : {<<0, 1>>, <<16384, 0>>}]

\* capacities of the caller's output buffer
MaxLens == {0, 1, 2, 3, 65535, 65536}

CodecInit ==
    /\ ProcessImage
    /\ IdIdle
    /\ codec_pc = "write"
    /\ codec_buf = <<>>
    /\ codec_out = <<>>
    /\ \/ codec_fn = "header" /\ codec_in \in HeaderSamples /\ codec_max = 0
       \/ codec_fn = "u16" /\ codec_in \in 0 .. 65535 /\ codec_max = 0
       \/ codec_fn = "u32" /\ codec_in \in U32Samples /\ codec_max = 0
       \/ codec_fn = "i64" /\ codec_in \in I64Samples /\ codec_max = 0
       \/ codec_fn = "string" /\ codec_in \in StringSamples /\ codec_max \in MaxLens
       \/ codec_fn = "request" /\ codec_in \in RequestInputs /\ codec_max = 0

\* the writer of codec_fn stores its bytes in the buffer
Written(fn, bytes) ==
    /\ codec_pc = "write"
    /\ codec_fn = fn
    /\ codec_buf' = bytes
    /\ codec_pc' = "read"
    /\ UNCHANGED <<codec_fn, codec_in, codec_max, codec_out>>
    /\ UNCHANGED clientVars
    /\ UNCHANGED netVars
    /\ UNCHANGED idVars

\* the reader of codec_fn returns ret and stores val
Read(fn, out) ==
    /\ codec_pc = "read"
    /\ codec_fn = fn
    /\ codec_out' = out
    /\ codec_pc' = "done"
    /\ UNCHANGED <<codec_fn, codec_in, codec_max, codec_buf>>
    /\ UNCHANGED clientVars
    /\ UNCHANGED netVars
    /\ UNCHANGED idVars

call_write_header == Written("header", write_header(codec_in))

call_read_header ==
    \E st \in StaleBytes :
        Read("header", [ret |-> read_header_ret, val |-> read_header(Mem(codec_buf, st))])

call_write_u16 == Written("u16", write_u16(codec_in))

call_read_u16 ==
    \E st \in StaleBytes :
        Read("u16", [ret |-> read_u16_ret, val |-> read_u16(Mem(codec_buf, st), 0)])

call_write_u32 == Written("u32", write_u32(codec_in))

call_read_u32 ==
    \E st \in StaleBytes :
        Read("u32", [ret |-> read_u32_ret, val |-> read_u32(Mem(codec_buf, st), 0)])

call_write_i64 == Written("i64", write_i64(codec_in))

call_read_i64 ==
    \E st \in StaleBytes :
        Read("i64", [ret |-> read_i64_ret, val |-> read_i64(Mem(codec_buf, st), 0)])

call_write_string == Written("string", write_string(codec_in))

call_read_string ==
    \E st \in StaleBytes : Read("string", read_string(Mem(codec_buf, st), 0, codec_max))

\* a command builds its request in req_buf: the bytes it stores from index 0 on
\* (indices >= MAX_DGRAM_SIZE lie outside req_buf)
call_build_request ==
    Written("request", BuildRequest(codec_in.cmd, codec_in.args, codec_in.rid))

CodecNext ==
    \/ call_write_header
    \/ call_read_header
    \/ call_write_u16
    \/ call_read_u16
    \/ call_write_u32
    \/ call_read_u32
    \/ call_write_i64
    \/ call_read_i64
    \/ call_write_string
    \/ call_read_string
    \/ call_build_request

CodecSpec == CodecInit /\ [][CodecNext]_vars

(***************************************************************************)
(* client_main.c: the request-id counter on its own: init_request_id once, *)
(* then next_request_id call after call.                                   *)
(***************************************************************************)
MaxCalls == 6

\* rand() & 0x3FFFFFFF: values at the ends of the range and around a carry
IdSeeds == {<<h, l>> : h \in {0, 1, 16382, 16383}, l \in {0, 1, 65534, 65535}}

IdInit ==
    /\ ProcessImage
    /\ CodecIdle
    /\ id_pc = "init"
    /\ id_seed = <<0, 0>>
    /\ ids = <<>>

call_init_request_id ==
    /\ id_pc = "init"
    /\ \E seed \in IdSeeds :
         /\ g_request_id' = seed
         /\ id_seed' = seed
    /\ id_pc' = "ready"
    /\ UNCHANGED ids
    /\ UNCHANGED <<pc, cmd, args, req_buf, result, readEnd, sock>>
    /\ UNCHANGED invokeVars
    /\ UNCHANGED listenerVars
    /\ UNCHANGED netVars
    /\ UNCHANGED codecVars

call_next_request_id ==
    /\ id_pc = "ready"
    /\ Len(ids) < MaxCalls
    /\ g_request_id' = next_request_id(g_request_id)
    /\ ids' = Append(ids, g_request_id')
    /\ UNCHANGED <<id_pc, id_seed>>
    /\ UNCHANGED <<pc, cmd, args, req_buf, result, readEnd, sock>>
    /\ UNCHANGED invokeVars
    /\ UNCHANGED listenerVars
    /\ UNCHANGED netVars
    /\ UNCHANGED codecVars

IdNext ==
    \/ call_init_request_id
    \/ call_next_request_id

IdSpec == IdInit /\ [][IdNext]_vars

(***************************************************************************)
(* Properties.                                                             *)
(***************************************************************************)
InInvoke == pc \in {"send", "select", "recvfrom"}
CommandDone == pc \in {"cleanup", "exit"} /\ cmd \in Commands
Waited == IF pc \in {"select", "recvfrom"} \/ term \in {"reply", "transport"} THEN 1 ELSE 0

\* an invocation in which, so far, every send succeeded and every wait timed out
OnlyTimeouts ==
    /\ cmd \in Commands
    /\ args.retries >= 0
    /\ sendFails = 0
    /\ pc # "recvfrom"
    /\ term \in {"none", "exhausted"}

\* C1 (retry bound): when every send succeeds and every wait times out,
\* udp_invoke with max_retries = r >= 0 never makes more than r + 1 sends, and
\* it returns only after the (r+1)-th send and the (r+1)-th timeout, with the
\* retries-exhausted failure (-1, "Failed after ... retries").
C1_RetryBound ==
    OnlyTimeouts =>
        /\ sends <= args.retries + 1
        /\ timeouts <= args.retries + 1
        /\ term = "exhausted" =>
              /\ sends = args.retries + 1
              /\ timeouts = args.retries + 1
              /\ ret = -1
              /\ diag = "Failed after retries"

C1_Witness ==
    /\ OnlyTimeouts
    /\ args.retries >= 1
    /\ term = "exhausted"
    /\ sends = args.retries + 1

\* C2 (retry identity): every datagram handed to sendto in one invocation is
\* the request the command built on entry (header with the one request id it
\* allocated, flags, payload, length); the buffer is not changed and no further
\* request id is allocated while the invocation retries.
C2_RetryIdentity ==
    cmd \in Commands =>
        /\ req_buf = BuildRequest(cmd, args, g_request_id)
        /\ sentBytes \subseteq {req_buf}
        /\ read_header(Mem(req_buf, 0)).requestId = g_request_id

C2_Witness ==
    /\ cmd \in Commands
    /\ sends - sendFails >= 2
    /\ timeouts >= 1
    /\ sentBytes = {req_buf}

\* C3 (at-most-once): an invocation sent with the at-most-once flag is executed
\* at most once by a server that deduplicates by requestId, whatever the
\* network loses, delays or duplicates and however often the client retransmits.
C3_AtMostOnce ==
    (cmd \in Commands /\ args.at_most_once # 0) => Len(srvExec) <= 1

C3_Witness ==
    /\ cmd \in Commands
    /\ args.at_most_once # 0
    /\ sends - sendFails >= 2
    /\ dups >= 1
    /\ Len(srvExec) = 1
    /\ srvRepeats >= 2

\* C4 (hard transport error): once select or recvfrom failed, udp_invoke has
\* returned -1 and made no send after the one of the failing attempt, even
\* when attempts remain.
C4_HardErrorAborts ==
    (diag \in {"select failed", "recvfrom failed"} \/ term = "transport") =>
        /\ term = "transport"
        /\ ~InInvoke
        /\ ret = -1
        /\ sends = attempt + 1
        /\ attempt = sendFails + timeouts

C4_Witness ==
    /\ term = "transport"
    /\ diag = "select failed"
    /\ attempt < args.retries
    /\ pc = "exit"

\* C5 (send error): a failed sendto consumes exactly one attempt and is not
\* followed by a wait; when every send fails udp_invoke makes max_retries + 1
\* sends and returns -1; a later send that succeeds and is answered makes the
\* invocation succeed.
C5_SendErrorNotFatal ==
    cmd \in Commands =>
        /\ attempt = sendFails + timeouts
        /\ timeouts + Waited = sends - sendFails
        /\ (sendFails > 0 /\ term # "none") => term \in {"exhausted", "reply", "transport"}
        /\ (term = "transport") => diag # "sendto failed"
        /\ (term = "exhausted" /\ timeouts = 0 /\ args.retries >= 0) =>
              /\ sends = args.retries + 1
              /\ sendFails = args.retries + 1
              /\ ret = -1
        /\ (term = "reply") => ret = Len(resp_buf)

C5_Witness ==
    /\ cmd \in Commands
    /\ sendFails >= 1
    /\ timeouts = 0
    /\ term = "reply"
    /\ pc = "exit"
    /\ result.status = "ok"

\* the opCode field of the datagram in resp_buf has the error bit set
ErrorBitReceived ==
    /\ Len(resp_buf) >= 4
    /\ BitSet(read_u16(Mem(resp_buf, 0), 2), OP_ERROR_MASK)

\* the opCode of the request the command built
RequestOp == read_header(Mem(req_buf, 0)).opCode

C7_RecoveryAfterLoss ==
    \A ivs \in {<<Interval1>>, <<Interval1, Interval2>>} :
        ( /\ cmd = "query"
          /\ CommandDone
          /\ args.retries >= 1
          /\ sendFails = 0
          /\ timeouts = 1
          /\ term = "reply"
          /\ resp_buf = Reply(OP_QUERY_AVAIL, g_request_id, IntervalsPayload(ivs)) )
        => /\ sends = 2
           /\ ret = Len(resp_buf)
           /\ result = [status |-> "ok", value |-> <<Len(ivs), ivs>>]

C7_Witness ==
    /\ cmd = "query"
    /\ pc = "exit"
    /\ timeouts = 1
    /\ sends = 2
    /\ resp_buf = Reply(OP_QUERY_AVAIL, g_request_id, IntervalsPayload(<<Interval1>>))
    /\ result = [status |-> "ok", value |-> <<1, <<<<I64(1000), I64(2000)>>>>>>]

C9_RemoteErrorTerminal ==
    ErrorBitReceived =>
        /\ term = "reply"
        /\ ~InInvoke
        /\ sends = attempt + 1
        /\ result.status \in {"none", "server error"}
        /\ CommandDone => result = ServerError
        /\ callback_sock = "none"

C9_Witness ==
    /\ ErrorBitReceived
    /\ attempt < args.retries
    /\ cmd = "change"
    /\ pc = "exit"
    /\ result = ServerError

\* C10 as stated (truncation safety): decoding a received datagram of length L
\* reads no byte at index >= L, and a datagram too short for its declared shape
\* is not reported as a decoded result.
C10_TruncationSafety ==
    /\ (term = "reply" /\ CommandDone) =>
          /\ readEnd <= Len(resp_buf)
          /\ (Len(resp_buf) < HEADER_LEN + 2) => result.status # "ok"
    /\ cbReadEnd <= Len(callback_buf)

\* the header fields of a received datagram of at least HEADER_LEN bytes
HeaderOf(d) == read_header(Mem(d, 0))

\* the statuses with which a command or the listener reports a decoded payload
DecodedStatuses == {"ok", "registered", "not registered", "update"}

\* C11 as stated (payloadLen validation): a received message (reply or
\* notification) whose payloadLen differs from the bytes received minus 16 is
\* rejected: no payload field of it is read or reported.
C11_PayloadLenValidated ==
    /\ ( /\ CommandDone
          /\ term = "reply"
          /\ Len(resp_buf) >= HEADER_LEN
          /\ HeaderOf(resp_buf).payloadLen # U32(Len(resp_buf) - HEADER_LEN) )
       => (result.status \notin DecodedStatuses /\ readEnd <= HEADER_LEN)
    /\ ( /\ Len(callback_buf) >= HEADER_LEN
          /\ HeaderOf(callback_buf).payloadLen # U32(Len(callback_buf) - HEADER_LEN) )
       => (cbLast.status \notin DecodedStatuses /\ cbReadEnd <= HEADER_LEN)

\* C12 as stated (version check): a received message (reply or notification)
\* whose header version is not PROTOCOL_VERSION is rejected: its payload is not
\* decoded into a result shown to the caller.
C12_VersionChecked ==
    /\ ( /\ CommandDone
          /\ term = "reply"
          /\ Len(resp_buf) >= HEADER_LEN
          /\ HeaderOf(resp_buf).version # PROTOCOL_VERSION )
       => result.status \notin DecodedStatuses
    /\ ( /\ Len(callback_buf) >= HEADER_LEN
          /\ HeaderOf(callback_buf).version # PROTOCOL_VERSION )
       => cbLast.status \notin DecodedStatuses

\* C13 as stated (short header): a received datagram of fewer than 16 bytes
\* yields no decoded header: it is treated neither as a success nor as an error
\* response, and the listener reports nothing decoded from it.
C13_ShortHeaderRejected ==
    /\ (CommandDone /\ term = "reply" /\ Len(resp_buf) < HEADER_LEN)
       => (result.status \notin DecodedStatuses \cup {"server error"} /\ readEnd = 0)
    /\ (cbLast # NoResult /\ Len(callback_buf) < HEADER_LEN)
       => (cbLast.status \notin {"update", "ignored"} /\ cbReadEnd = 0)

\* the two bytes of a 16-bit quantity, most significant first
BE16(x) == <<x \div 256, x % 256>>

\* C14 (header round-trip): write_header stores exactly 16 bytes, laid out as
\* version(2) opCode(2) requestId(4) flags(4) payloadLen(4), each big-endian with
\* no padding, and read_header of those bytes returns an equal Header and
\* consumes 16 bytes.
C14_HeaderRoundTrip ==
    codec_fn = "header" =>
        /\ codec_pc \in {"read", "done"} =>
              /\ Len(codec_buf) = 16
              /\ codec_buf = BE16(codec_in.version) \o BE16(codec_in.opCode)
                               \o BE16(codec_in.requestId[1]) \o BE16(codec_in.requestId[2])
                               \o BE16(codec_in.flags[1]) \o BE16(codec_in.flags[2])
                               \o BE16(codec_in.payloadLen[1]) \o BE16(codec_in.payloadLen[2])
        /\ codec_pc = "done" => codec_out = [ret |-> 16, val |-> codec_in]

C14_Witness ==
    /\ codec_fn = "header"
    /\ codec_pc = "done"
    /\ codec_in = [version |-> 65535, opCode |-> 258, requestId |-> <<258, 772>>,
                   flags |-> <<32768, 0>>, payloadLen |-> <<65535, 65535>>]
    /\ codec_buf = <<255, 255, 1, 2, 1, 2, 3, 4, 128, 0, 0, 0, 255, 255, 255, 255>>
    /\ codec_out.val = codec_in

\* C15 (integer round-trip): for u16, u32 and i64 (zero, the maximum, negative
\* values) the reader returns the value written and consumes as many bytes as
\* were written (2, 4, 8); an i64 is stored as its high 32-bit word followed by
\* its low 32-bit word, each big-endian.
C15_IntegerRoundTrip ==
    /\ codec_fn = "u16" =>
          /\ codec_pc \in {"read", "done"} => codec_buf = BE16(codec_in)
          /\ codec_pc = "done" => codec_out = [ret |-> 2, val |-> codec_in]
    /\ codec_fn = "u32" =>
          /\ codec_pc \in {"read", "done"} =>
                codec_buf = BE16(codec_in[1]) \o BE16(codec_in[2])
          /\ codec_pc = "done" => codec_out = [ret |-> 4, val |-> codec_in]
    /\ codec_fn = "i64" =>
          /\ codec_pc \in {"read", "done"} =>
                codec_buf = BE16(codec_in[1]) \o BE16(codec_in[2])
                              \o BE16(codec_in[3]) \o BE16(codec_in[4])
          /\ codec_pc = "done" => codec_out = [ret |-> 8, val |-> codec_in]

\* a negative i64 (-0x0105C54567478BAC) went through write_i64 and read_i64
C15_Witness ==
    /\ codec_fn = "i64"
    /\ codec_pc = "done"
    /\ codec_in = <<65279, 56506, 39096, 30292>>
    /\ codec_buf = <<254, 255, 220, 186, 152, 184, 118, 84>>
    /\ codec_out = [ret |-> 8, val |-> codec_in]

\* the C string held in an output buffer: the bytes before the first terminator
CString(out) ==
    LET k == CHOOSE j \in 1 .. Len(out) : out[j] = 0 /\ \A i \in 1 .. j - 1 : out[i] # 0
    IN  SubSeq(out, 1, k - 1)

\* C16 (string round-trip): for a string s of n <= 65535 bytes and a capacity
\* max_len > n, read_string of the bytes write_string(s) stored yields s, and
\* both functions return 2 + n.
C16_StringRoundTrip ==
    (codec_fn = "string" /\ Len(codec_in) <= 65535 /\ codec_max > Len(codec_in)) =>
        /\ codec_pc \in {"read", "done"} => Len(codec_buf) = 2 + Len(codec_in)
        /\ codec_pc = "done" =>
              /\ codec_out.ret = 2 + Len(codec_in)
              /\ CString(codec_out.val) = codec_in

C16_Witness ==
    /\ codec_fn = "string"
    /\ codec_pc = "done"
    /\ Len(codec_in) = 65535
    /\ codec_max = 65536
    /\ codec_out.ret = 65537
    /\ CString(codec_out.val) = codec_in

DeclaredLen == codec_buf[1] * 256 + codec_buf[2]

\* C18 (string decoding): read_string returns -1 and stores nothing exactly when
\* the declared length is >= max_len; otherwise it stores the declared number of
\* bytes and a terminator at index len, and nothing at an index >= max_len.
C18_ReadStringCapacity ==
    (codec_fn = "string" /\ codec_pc = "done") =>
        IF DeclaredLen >= codec_max
          THEN codec_out = [ret |-> -1, val |-> <<>>]
          ELSE /\ codec_out.ret = 2 + DeclaredLen
               /\ Len(codec_out.val) = DeclaredLen + 1
               /\ SubSeq(codec_out.val, 1, DeclaredLen) = SubSeq(codec_buf, 3, 2 + DeclaredLen)
               /\ codec_out.val[DeclaredLen + 1] = 0
               /\ Len(codec_out.val) <= codec_max

\* the declared length equals the capacity: no room for the terminator
C18_Witness ==
    /\ codec_fn = "string"
    /\ codec_pc = "done"
    /\ DeclaredLen = 2
    /\ codec_max = 2
    /\ codec_out = [ret |-> -1, val |-> <<>>]

\* the callback endpoint was asked for, or exists, or the receive loop runs
ListenerStarted ==
    pc \in {"cb_socket", "cb_bind", "cb_loop"} \/ callback_sock # "none" \/ cbLast # NoResult

C20_ListenerKeepsReceiving ==
    /\ [](cbLast # NoResult => pc \in {"cb_loop", "killed"} \/ callback_sock = "closed")
    /\ [][(pc = "cb_loop" /\ pc' \notin {"cb_loop", "killed"}) =>
             (callback_sock' = "closed" /\ UNCHANGED <<cbLast, callback_buf, cbReadEnd>>)]_vars
    /\ [][(pc = "cb_loop" /\ <<cbLast, callback_buf, cbReadEnd>>' #
                                <<cbLast, callback_buf, cbReadEnd>>) =>
             (pc' = "cb_loop" /\ UNCHANGED callback_sock)]_vars

\* a notification with count = 0 was handled and the loop is at its next receive
C20_Witness ==
    /\ pc = "cb_loop"
    /\ callback_sock = "bound"
    /\ callback_buf = Notification(OP_QUERY_AVAIL, FLAG_IS_CALLBACK, IntervalsPayload(<<>>))
    /\ cbLast = [status |-> "update", value |-> <<0, <<>>>>]

\* C21 as stated (callback routing): the listener decodes a datagram as an
\* availability update only if its flags have the callback bit set and its
\* opCode is query-availability; any other datagram is discarded without
\* decoding intervals.
C21_OnlyCallbacksDecoded ==
    (cbLast.status = "update" /\ Len(callback_buf) >= HEADER_LEN) =>
        /\ HeaderOf(callback_buf).opCode = OP_QUERY_AVAIL
        /\ BitSet(HeaderOf(callback_buf).flags[2], FLAG_IS_CALLBACK)

\* C22 as stated (cancellation): from the listening state an external
\* cancellation, other than a receive failure or the end of the process, makes
\* the loop exit and close its receive endpoint: whenever the listener has
\* stopped listening, its endpoint has been closed.
C22_CancellationEndsLoop ==
    (callback_sock # "none" /\ pc \notin {"cb_bind", "cb_loop"}) => callback_sock = "closed"

\* a < b for uint32_t values
Less32(a, b) == a[1] < b[1] \/ (a[1] = b[1] /\ a[2] < b[2])

\* seed + k for a small k, when the sum stays below 2^32
Plus32(seed, k) == <<seed[1] + ((seed[2] + k) \div 65536), (seed[2] + k) % 65536>>

\* C23 (request ids): init_request_id leaves a seed in [0, 0x3FFFFFFF]; the
\* k-th call of next_request_id returns seed + k (the first id is seed + 1), so
\* the ids of successive invocations are strictly increasing and pairwise
\* distinct; the counter wraps only from 0xFFFFFFFF, which is at least
\* 2^32 - 2^30 calls away from every seed.
C23_MonotonicIds ==
    id_pc = "ready" =>
        /\ id_seed[1] \in 0 .. 16383 /\ id_seed[2] \in 0 .. 65535
        /\ 65535 - id_seed[1] >= 49152
        /\ \A k \in 1 .. Len(ids) : ids[k] = Plus32(id_seed, k)
        /\ \A j \in 1 .. Len(ids) : \A k \in 1 .. Len(ids) :
              j < k => (Less32(ids[j], ids[k]) /\ ids[j] # ids[k])
        /\ \A k \in 1 .. Len(ids) : Less32(id_seed, ids[k])
        /\ g_request_id = IF ids = <<>> THEN id_seed ELSE ids[Len(ids)]
        /\ \A x \in IdSeeds \cup {<<49151, 65535>>, <<65535, 65534>>} :
              Less32(x, next_request_id(x))
        /\ next_request_id(<<65535, 65535>>) = <<0, 0>>

\* three ids were drawn after the largest seed, across the carry into bit 30
C23_Witness ==
    /\ id_pc = "ready"
    /\ id_seed = <<16383, 65535>>
    /\ Len(ids) >= 3
    /\ ids[1] = <<16384, 0>>
    /\ ids[3] = <<16384, 2>>

\* C24 (at-least-once): with the at-most-once flag unset the server answers no
\* request from its history: it executes every datagram delivered to it, so a
\* retransmitted (or duplicated) request of one call can be executed more than
\* once; the executions are all of that call's request id and never outnumber
\* the datagrams that reached the server.
C24_AtLeastOnce ==
    cmd \in Commands =>
        /\ Len(srvExec) + srvRepeats + BagCardinality(netReq) <= (sends - sendFails) + dups
        /\ \A i \in 1 .. Len(srvExec) : srvExec[i] = g_request_id
        /\ args.at_most_once = 0 => (srvRepeats = 0 /\ srvHistory = <<>>)

\* one custom-incr call, first wait timed out, no duplication by the network:
\* the server incremented the counter twice and the client reports 2
C24_Witness ==
    /\ cmd = "custom-incr"
    /\ args.at_most_once = 0
    /\ args.retries >= 1
    /\ timeouts = 1
    /\ sends = 2
    /\ dups = 0
    /\ Len(srvExec) = 2
    /\ pc = "exit"
    /\ result = [status |-> "ok", value |-> <<I64(2)>>]

\* the number of passes the loop of udp_invoke can make
Budget == IF args.retries >= 0 THEN args.retries + 1 ELSE 0

\* C25 (attempt counting): in every execution of udp_invoke, whatever mix of
\* send failures, timeouts, replies and hard errors, the sends never exceed
\* max_retries + 1; attempts are numbered from 0 (the counter is 0 on entry) to
\* max_retries; and the retries-exhausted failure is returned only after exactly
\* max_retries + 1 attempts, each ended by a send failure or a timeout.
C25_AttemptCounting ==
    cmd \in Commands =>
        /\ sends <= Budget
        /\ attempt \in 0 .. Budget
        /\ sends = attempt + Waited
        /\ (sends = 0 /\ pc = "send") => attempt = 0
        /\ (pc \in {"select", "recvfrom"} \/ term \in {"reply", "transport"}) =>
              attempt \in 0 .. args.retries
        /\ term = "exhausted" =>
              /\ attempt = Budget
              /\ sends = Budget
              /\ sendFails + timeouts = Budget
              /\ ret = -1

\* exhaustion after a failed send and a timeout, in that or the other order
C25_Witness ==
    /\ cmd \in Commands
    /\ args.retries = 1
    /\ term = "exhausted"
    /\ sendFails = 1
    /\ timeouts = 1
    /\ sends = 2

\* the wire form of each field kind, spelled out byte by byte
StrBytes(x) == BE16(Len(x)) \o x
U32Bytes(v) == BE16(v[1]) \o BE16(v[2])
I64Bytes(v) == BE16(v[1]) \o BE16(v[2]) \o BE16(v[3]) \o BE16(v[4])

\* the request fields of each operation in the order of the operation table
TablePayload(c, a) ==
    CASE c = "query"       -> StrBytes(a.facility) \o I64Bytes(<<0, 402, 29625, 43008>>)
                                \o I64Bytes(<<0, 402, 30944, 1024>>)
      [] c = "book"        -> StrBytes(a.facility) \o StrBytes(a.user)
                                \o I64Bytes(a.start_ms) \o I64Bytes(a.end_ms)
      [] c = "change"      -> I64Bytes(a.booking_id) \o U32Bytes(a.offset_minutes)
      [] c = "monitor"     -> StrBytes(a.facility) \o U32Bytes(a.duration_seconds)
                                \o U32Bytes(a.callback_port)
      [] c = "reset"       -> StrBytes(a.facility) \o I64Bytes(a.day_start)
                                \o I64Bytes(a.day_end)
      [] c = "custom-incr" -> StrBytes(a.facility)

TableOp(c) ==
    CASE c = "query"       -> 1
      [] c = "book"        -> 2
      [] c = "change"      -> 3
      [] c = "monitor"     -> 4
      [] c = "reset"       -> 4097
      [] c = "custom-incr" -> 4098

C28_RequestFitsBuffer ==
    (codec_fn = "request" /\ codec_pc = "read") => Len(codec_buf) <= MAX_DGRAM_SIZE

\* C27 as stated (reply correlation): a received datagram becomes the response
\* of an invocation only if its header requestId is the requestId of the
\* request being invoked; no result is taken from a reply to another request.
C27_ReplyCorrelated ==
    (term = "reply" /\ Len(resp_buf) >= HEADER_LEN) =>
        HeaderOf(resp_buf).requestId = HeaderOf(req_buf).requestId

\* C29 (every invocation terminates): when the calls made by udp_invoke
\* return, an invocation that has started reaches a terminal outcome (reply,
\* exhausted or transport); the outcome, once set, is never replaced by
\* another; the attempt counter never passes max_retries + 1; and with a
\* negative max_retries nothing is sent and the outcome is "exhausted" with
\* return value -1.
C29_InvocationTerminates ==
    /\ InInvoke ~> (term \in {"reply", "exhausted", "transport"} /\ pc = "returned")
    /\ [][term # "none" => term' = term]_vars
    /\ [](InInvoke => term = "none")
    /\ [](pc = "returned" => term \in {"reply", "exhausted", "transport"})
    /\ [](cmd \in Commands =>
            /\ attempt >= 0
            /\ attempt <= (IF args.retries < 0 THEN 0 ELSE args.retries + 1)
            /\ (args.retries < 0 =>
                  /\ sends = 0
                  /\ term \in {"none", "exhausted"}
                  /\ (term = "exhausted" => ret = -1)))

\* a negative max_retries: the invocation ended without a send
C29_Witness ==
    /\ cmd \in Commands
    /\ args.retries < 0
    /\ pc = "returned"
    /\ term = "exhausted"
    /\ ret = -1
    /\ sends = 0

\* C30 (endpoint ownership and release): no descriptor is closed twice or
\* closed without having been created; once cmd_monitor has returned after
\* creating the callback socket (bind failure, receive failure) that socket
\* is closed; the request socket stays open from the dispatch until the
\* command has returned and is closed when main exits; and a step taken
\* inside cmd_monitor's callback part changes neither the request socket nor
\* what is queued on it nor the response buffer.
C30_EndpointOwnership ==
    /\ [](sock # "EBADF" /\ callback_sock # "EBADF")
    /\ [](pc \in {"cleanup", "exit"} => callback_sock \in {"none", "closed"})
    /\ [](pc \notin {"main", "exit"} => sock = "open")
    /\ [](pc = "exit" => sock = "closed")
    /\ [][(pc \in {"cb_socket", "cb_bind", "cb_loop"}) =>
             (pc' # "exit" /\ UNCHANGED <<sock, netResp, resp_buf, readEnd>>)]_vars
    /\ [][callback_sock = "closed" => callback_sock' = "closed"]_vars
    /\ [][sock = "closed" => sock' = "closed"]_vars

\* the listener ran, a receive failure ended it, and main has exited
C30_Witness ==
    /\ pc = "exit"
    /\ cmd = "monitor"
    /\ cbLast # NoResult
    /\ callback_sock = "closed"
    /\ sock = "closed"

====
